---- MODULE Spec2Model ----
(***************************************************************************)
(* The icon generation scripts of iLauncher (scripts/*.py) as one state    *)
(* machine: the icons directory as a map from file names to byte strings,  *)
(* the position of the running script, and the ICNS / ICO / PNG byte       *)
(* layouts the scripts and the imaging library write.                      *)
(***************************************************************************)
EXTENDS Integers, Sequences, FiniteSets, TLC

(***************************************************************************)
(* Bounds of the model.                                                    *)
(***************************************************************************)
\* The compressed pixel data of a PNG holds k * ZStep filler bytes, k in 0..MaxZ.
MaxZ == 1
\* One unit of compressed data: large enough that a chunk length needs two bytes.
ZStep == 220
\* How many times a script is run in sequence on the same directory.
MaxRuns == 2

(***************************************************************************)
(* Bytes and fixed-width integers.                                         *)
(***************************************************************************)
\* A file that does not exist (no byte string holds -1).
Absent == <<-1>>

\* struct.pack('>I', n): four bytes, most significant first.
PackBE32(n) ==
    << (n \div 16777216) % 256, (n \div 65536) % 256, (n \div 256) % 256, n % 256 >>

\* The big-endian 32-bit unsigned integer at 0-based offset off of bytes b.
ReadBE32(b, off) ==
    b[off + 1] * 16777216 + b[off + 2] * 65536 + b[off + 3] * 256 + b[off + 4]

\* Pillow's o16le / o32le and their readers, used by the ICO writer.
PackLE16(n) == << n % 256, (n \div 256) % 256 >>
PackLE32(n) ==
    << n % 256, (n \div 256) % 256, (n \div 65536) % 256, (n \div 16777216) % 256 >>
ReadLE16(b, off) == b[off + 1] + b[off + 2] * 256
ReadLE32(b, off) ==
    b[off + 1] + b[off + 2] * 256 + b[off + 3] * 65536 + b[off + 4] * 16777216

\* bytes b from 0-based offset off, n of them.
Slice(b, off, n) == [i \in 1..n |-> b[off + i]]

\* b'icns', and the four-byte type codes of the registry.
IcnsMagic == <<105, 99, 110, 115>>
Tag_ic09 == <<105, 99, 48, 57>>
Tag_ic08 == <<105, 99, 48, 56>>
Tag_ic07 == <<105, 99, 48, 55>>
Tag_ic11 == <<105, 99, 49, 49>>
Tag_ic04 == <<105, 99, 48, 52>>

\* icon_types of the three ICNS encoders: (size, type_code), in list order.
icon_types ==
    << <<512, Tag_ic09>>, <<256, Tag_ic08>>, <<128, Tag_ic07>>,
       <<32, Tag_ic11>>, <<16, Tag_ic04>> >>

RegistrySizes == {icon_types[i][1] : i \in 1..Len(icon_types)}

\* sizes of create_ico_file / create_ico_from_svg.
ico_sizes ==
    << <<16, 16>>, <<32, 32>>, <<48, 48>>, <<64, 64>>, <<128, 128>>, <<256, 256>> >>

\* The sizes dictionary of the three pipeline mains, in insertion order.
size_table ==
    << <<"icon.png", 512>>, <<"32x32.png", 32>>, <<"128x128.png", 128>>,
       <<"128x128@2x.png", 256>>, <<"Square30x30Logo.png", 30>>,
       <<"Square44x44Logo.png", 44>>, <<"Square71x71Logo.png", 71>>,
       <<"Square89x89Logo.png", 89>>, <<"Square107x107Logo.png", 107>>,
       <<"Square142x142Logo.png", 142>>, <<"Square150x150Logo.png", 150>>,
       <<"Square284x284Logo.png", 284>>, <<"Square310x310Logo.png", 310>>,
       <<"StoreLogo.png", 50>> >>

PngNames == {size_table[i][1] : i \in 1..Len(size_table)}
FileNames == PngNames \cup {"icon.svg", "icon.ico", "icon.icns"}

Scripts ==
    {"convert_svg_to_icons", "generate_icns", "generate_professional_icon",
     "generate_icon"}

VARIABLES
    script,      \* the script being run
    imports_ok,  \* whether the module-level imports of the script succeed
    codec,       \* compressed-data units of the PNG of each registry size
    fs,          \* the icons directory: file name -> bytes, or Absent
    fs_start,    \* the directory when the current run started
    fs_prev,     \* the directory when the previous run ended (Absent map in run 1)
    run,         \* 1-based number of the current run
    stage,       \* index of the current step in the script's program
    idx,         \* loop index of the loop being executed
    img,         \* the image opened by the running encoder
    icon_data,   \* the chunks built by the running ICNS encoder
    log,         \* reads and writes of files by the current run, in order
    exit_code    \* -1 while running, else the exit status of the process

vars ==
    << script, imports_ok, codec, fs, fs_start, fs_prev, run, stage, idx,
       img, icon_data, log, exit_code >>

(***************************************************************************)
(* Images and the PNG codec of the imaging library.                        *)
(***************************************************************************)
\* An image: its dimensions and the picture it shows.
Image(w, h, px) == [w |-> w, h |-> h, px |-> px]
NoImage == Image(0, 0, 0)

\* Pictures: the two procedural drawings, the vector source, stale content.
PxModern == 1
PxLauncher == PxModern + 1
PxSvg == PxLauncher + 1
PxStale == PxSvg + 1

PngSignature == <<137, 80, 78, 71, 13, 10, 26, 10>>
PngIHDR == <<73, 72, 68, 82>>

\* Units of compressed data of an image: the codec's for a registry size.
ZUnits(im) ==
    IF im.w = im.h /\ im.w \in DOMAIN codec THEN codec[im.w] ELSE 0

\* image.save(buffer, format='PNG') with the run number stamped into the data.
PngEncode_stamped(im) ==
    PngSignature \o PackBE32(13) \o PngIHDR \o PackBE32(im.w) \o PackBE32(im.h)
        \o <<8, 6, 0, 0, 0>> \o <<im.px>> \o <<run>>
        \o [i \in 1..(ZUnits(im) * ZStep) |-> 0]

\* image.save(buffer, format='PNG') / cairosvg.svg2png: signature, IHDR with
\* the dimensions, then the pixel data (picture and compressed filler).
PngEncode(im) ==
    PngSignature \o PackBE32(13) \o PngIHDR \o PackBE32(im.w) \o PackBE32(im.h)
        \o <<8, 6, 0, 0, 0>> \o <<im.px>>
        \o [i \in 1..(ZUnits(im) * ZStep) |-> 0]

\* Whether bytes b start like a PNG with an IHDR.
IsPng(b) ==
    /\ Len(b) >= 30
    /\ Slice(b, 0, 8) = PngSignature
    /\ Slice(b, 12, 4) = PngIHDR

\* Image.open(...) of PNG bytes.
PngDecode(b) == Image(ReadBE32(b, 16), ReadBE32(b, 20), b[30])

\* img.resize((w, h), LANCZOS) that keeps the source dimensions.
Resize_keep(im, w, h) == im

\* img.resize((w, h), LANCZOS): the same picture at exactly w x h, up or down.
Resize(im, w, h) == Image(w, h, im.px)

\* cairosvg.svg2png(url=svg_path, output_width=w, output_height=h): the vector
\* picture rendered at w x h, PNG-encoded.
Svg2Png(svg, w, h) == PngEncode(Image(w, h, PxSvg))

\* The content of icon.svg (an abstract vector document).
SvgBytes == <<60, 115, 118, 103, 62>>

\* create_modern_icon without the final downsampling.
create_modern_icon_norescale(size) ==
    LET render_size == size * 2 IN Image(render_size, render_size, PxModern)

\* create_modern_icon(size): drawn on a canvas of twice the size, smoothed,
\* then resized to (size, size).
create_modern_icon(size) ==
    LET render_size == size * 2
        canvas == Image(render_size, render_size, PxModern)
    IN  Resize(canvas, size, size)

\* create_ilauncher_icon(size): drawn directly on a size x size canvas.
create_ilauncher_icon(size) == Image(size, size, PxLauncher)

(***************************************************************************)
(* The ICNS encoders (the same code in three scripts).                     *)
(***************************************************************************)
RECURSIVE SumLen(_)
\* sum(len(chunk) for chunk in icon_data)
SumLen(chunks) ==
    IF chunks = <<>> THEN 0 ELSE Len(Head(chunks)) + SumLen(Tail(chunks))

\* chunk_size computed without the 8 bytes of the chunk's own header.
MakeChunk_payloadlen(type_code, png_bytes) ==
    type_code \o PackBE32(Len(png_bytes)) \o png_bytes

\* chunk_size = 8 + len(png_bytes); chunk = type_code + pack('>I', chunk_size)
\* + png_bytes
MakeChunk(type_code, png_bytes) ==
    LET chunk_size == 8 + Len(png_bytes)
    IN  type_code \o PackBE32(chunk_size) \o png_bytes

\* total_size that leaves out the 8 bytes of the file header.
IcnsTotalSize_noheader(chunks) == SumLen(chunks)

\* total_size = 8 + sum(len(chunk) for chunk in icon_data)
IcnsTotalSize(chunks) == 8 + SumLen(chunks)

(***************************************************************************)
(* The ICO writer of the imaging library, as called by create_ico_file and *)
(* create_ico_from_svg: images[0].save(ico_path, format='ICO',             *)
(* sizes=sizes, append_images=images[1:]).                                 *)
(***************************************************************************)
\* The requested sizes the writer keeps: those that fit the image the save is
\* called on and the format's 256 limit.
RECURSIVE FilterSizes(_, _)
FilterSizes(s, im) ==
    IF s = <<>> THEN <<>>
    ELSE LET size == Head(s)
             skip == size[1] > im.w \/ size[2] > im.h \/ size[1] > 256
                        \/ size[2] > 256
         IN  (IF skip THEN <<>> ELSE <<size>>) \o FilterSizes(Tail(s), im)

\* frame.thumbnail(size): shrinks to fit, never enlarges (square images here).
Thumbnail(im, size) ==
    IF im.w > size[1] \/ im.h > size[2] THEN Image(size[1], size[2], im.px) ELSE im

\* The frame written for one size: the first provided image of exactly that
\* size, else a thumbnail of the last provided image.
FrameFor(size, provided_ims) ==
    LET hits == {i \in 1..Len(provided_ims) :
                    provided_ims[i].w = size[1] /\ provided_ims[i].h = size[2]}
    IN  IF hits # {}
        THEN provided_ims[CHOOSE i \in hits : \A j \in hits : i <= j]
        ELSE Thumbnail(provided_ims[Len(provided_ims)], size)

\* The frames of the file: the requested sizes (ascending; the callers' list is
\* ascending and duplicate-free) no larger than the image the save is called
\* on, each taken from the provided images.
IcoFrames(im, sizes, append_images) ==
    LET provided_ims == <<im>> \o append_images
        kept == FilterSizes(sizes, im)
    IN  [i \in 1..Len(kept) |-> FrameFor(kept[i], provided_ims)]

\* One 16-byte directory entry: width and height bytes (0 means 256), colour
\* count, reserved, planes, bit count, bytesInRes, imageOffset.
IcoEntry(frame, bytes_len, offset) ==
    << (IF frame.w < 256 THEN frame.w ELSE 0),
       (IF frame.h < 256 THEN frame.h ELSE 0), 0, 0, 0, 0 >>
        \o PackLE16(32) \o PackLE32(bytes_len) \o PackLE32(offset)

RECURSIVE IcoDirectory(_, _)
\* The directory entries of frames whose first payload is placed at offset.
IcoDirectory(frames, offset) ==
    IF frames = <<>> THEN <<>>
    ELSE LET n == Len(PngEncode(Head(frames)))
         IN  IcoEntry(Head(frames), n, offset)
                \o IcoDirectory(Tail(frames), offset + n)

RECURSIVE IcoPayloads(_)
IcoPayloads(frames) ==
    IF frames = <<>> THEN <<>>
    ELSE PngEncode(Head(frames)) \o IcoPayloads(Tail(frames))

\* The bytes of the .ico file: header, directory, PNG payloads.
IcoSave(im, sizes, append_images) ==
    LET frames == IcoFrames(im, sizes, append_images)
    IN  <<0, 0, 1, 0>> \o PackLE16(Len(frames))
            \o IcoDirectory(frames, 6 + 16 * Len(frames))
            \o IcoPayloads(frames)

\* A standard reader: the (width, height) of every directory entry.
IcoDecodeSizes(b) ==
    [i \in 1..ReadLE16(b, 4) |->
        LET e == 6 + 16 * (i - 1)
        IN  << (IF b[e + 1] = 0 THEN 256 ELSE b[e + 1]),
               (IF b[e + 2] = 0 THEN 256 ELSE b[e + 2]) >>]

\* The images a standard reader decodes: the payload of every entry.
IcoDecodeImages(b) ==
    [i \in 1..ReadLE16(b, 4) |->
        LET e == 6 + 16 * (i - 1)
        IN  PngDecode(Slice(b, ReadLE32(b, e + 12), ReadLE32(b, e + 8)))]

(***************************************************************************)
(* The statements of each script, in program order.                        *)
(***************************************************************************)
\* The writes of `with open(icns_path, 'wb') as f:` in the three encoders.
icns_write_steps ==
    <<"icns_open_out", "icns_write_magic", "icns_write_total", "icns_write_chunks">>

\* create_icns_manually with the output opened before the source is read.
create_icns_manually_openfirst ==
    <<"icns_open_out", "icns_open_src", "icns_build", "icns_write_magic",
      "icns_write_total", "icns_write_chunks">>

\* create_icns_manually (generate_icns.py).
create_icns_manually == <<"icns_open_src", "icns_build">> \o icns_write_steps

\* create_icns_file (generate_professional_icon.py).
create_icns_file == <<"icns_open_src", "icns_build">> \o icns_write_steps

\* create_icns_from_svg with the output opened before the chunks are built.
create_icns_from_svg_openfirst ==
    <<"icns_open_out", "icns_build", "icns_write_magic", "icns_write_total",
      "icns_write_chunks">>

\* create_icns_from_svg (convert_svg_to_icons.py): renders the vector source
\* per size, opens no raster source.
create_icns_from_svg == <<"icns_build">> \o icns_write_steps

\* main of generate_professional_icon.py with the containers built first.
main_professional_icofirst == <<"ico">> \o create_icns_file \o <<"png_loop">>

\* main of generate_professional_icon.py.
main_professional == <<"png_loop", "ico">> \o create_icns_file

\* main of generate_icon.py (it writes no ICNS).
main_generate_icon == <<"png_loop", "ico">>

\* main of convert_svg_to_icons.py.
main_convert_svg == <<"check_svg", "png_loop", "ico">> \o create_icns_from_svg

\* main of generate_icns.py.
main_generate_icns == create_icns_manually

\* The whole script: the module-level imports, then main().
Program(s) ==
    <<"import">> \o
        CASE s = "convert_svg_to_icons" -> main_convert_svg
          [] s = "generate_icns" -> main_generate_icns
          [] s = "generate_professional_icon" -> main_professional
          [] s = "generate_icon" -> main_generate_icon

\* The step the process is at.
Pc == IF exit_code # -1 THEN "exit" ELSE Program(script)[stage]

\* The file the script reads as its source.
SourceName(s) == IF s = "convert_svg_to_icons" THEN "icon.svg" ELSE "icon.png"

(***************************************************************************)
(* Initial states: the script, the environment and the icons directory.    *)
(***************************************************************************)
\* Dimensions of a raster source found in the directory.
SourceDims == {<<1, 1>>, <<16, 16>>, <<512, 512>>, <<600, 300>>}

\* Stale bytes of a container left by an earlier tool.
StaleBytes == <<83, 84, 65, 76, 69>>

NoFiles == [n \in FileNames |-> Absent]

\* A directory with leftovers: every output exists with stale content.
StaleFiles ==
    [n \in FileNames |->
        IF n \in PngNames THEN PngEncode(Image(1, 1, PxStale))
        ELSE IF n = "icon.svg" THEN Absent
        ELSE StaleBytes]

\* The directories a run of script s may start from.
InitialDirs(s) ==
    LET bases == {NoFiles, StaleFiles}
    IN  CASE s = "convert_svg_to_icons" ->
                {[b EXCEPT !["icon.svg"] = v] : b \in bases, v \in {Absent, SvgBytes}}
          [] s = "generate_icns" ->
                {[b EXCEPT !["icon.png"] = v] :
                    b \in bases,
                    v \in {Absent} \cup
                          {PngEncode(Image(d[1], d[2], PxStale)) : d \in SourceDims}}
          [] OTHER -> bases

Init ==
    /\ script \in Scripts
    /\ imports_ok \in BOOLEAN
    /\ codec \in [RegistrySizes -> 0..MaxZ]
    /\ run = 1
    /\ fs \in InitialDirs(script)
    /\ fs_start = fs
    /\ fs_prev = NoFiles
    /\ stage = 1
    /\ idx = 1
    /\ img = NoImage
    /\ icon_data = <<>>
    /\ log = <<>>
    /\ exit_code = -1

(***************************************************************************)
(* Steps.                                                                  *)
(***************************************************************************)
\* The statement completes: on to the next one, or main returns and the
\* process exits 0.
Advance ==
    IF stage = Len(Program(script))
    THEN /\ exit_code' = 0
         /\ stage' = stage
    ELSE /\ stage' = stage + 1
         /\ exit_code' = exit_code

\* An uncaught exception: traceback, exit status 1.
Raise ==
    /\ exit_code' = 1
    /\ stage' = stage

\* Module-level imports (PIL, cairosvg): an ImportError here is outside the
\* try of __main__ and is never caught.
Import ==
    /\ Pc = "import"
    /\ IF imports_ok THEN Advance ELSE Raise
    /\ UNCHANGED <<script, imports_ok, codec, fs, fs_start, fs_prev, run, idx,
                   img, icon_data, log>>

\* convert_svg_to_icons.main: if not os.path.exists(svg_path): print; return.
CheckSvg ==
    /\ Pc = "check_svg"
    /\ IF fs["icon.svg"] = Absent
       THEN /\ exit_code' = 0
            /\ stage' = stage
       ELSE Advance
    /\ UNCHANGED <<script, imports_ok, codec, fs, fs_start, fs_prev, run, idx,
                   img, icon_data, log>>

\* One iteration of `for filename, size in sizes.items()` of a pipeline main:
\* render the icon at that size and save it as PNG under filename.
WritePng ==
    /\ Pc = "png_loop"
    /\ LET filename == size_table[idx][1]
           size == size_table[idx][2]
           last == idx = Len(size_table)
       IN  IF script = "convert_svg_to_icons" /\ fs["icon.svg"] = Absent
           THEN /\ Raise
                /\ UNCHANGED <<fs, idx, log>>
           ELSE /\ fs' = [fs EXCEPT ![filename] =
                            CASE script = "convert_svg_to_icons" ->
                                    Svg2Png(fs["icon.svg"], size, size)
                              [] script = "generate_professional_icon" ->
                                    PngEncode(create_modern_icon(size))
                              [] OTHER ->
                                    PngEncode(create_ilauncher_icon(size))]
                /\ log' = log
                        \o (IF script = "convert_svg_to_icons"
                            THEN << <<"read", "icon.svg">> >> ELSE <<>>)
                        \o << <<"write", filename>> >>
                /\ idx' = IF last THEN 1 ELSE idx + 1
                /\ IF last THEN Advance ELSE UNCHANGED <<stage, exit_code>>
    /\ UNCHANGED <<script, imports_ok, codec, fs_start, fs_prev, run, img,
                   icon_data>>

\* create_ico_file / create_ico_from_svg: one image per size of sizes, then
\* images[0].save(ico_path, format='ICO', sizes=sizes, append_images=images[1:]).
CreateIco ==
    /\ Pc = "ico"
    /\ LET src == SourceName(script)
           images ==
               [i \in 1..Len(ico_sizes) |->
                   IF script = "convert_svg_to_icons"
                   THEN PngDecode(Svg2Png(fs[src], ico_sizes[i][1], ico_sizes[i][2]))
                   ELSE Resize(PngDecode(fs[src]), ico_sizes[i][1], ico_sizes[i][2])]
           reads ==
               IF script = "convert_svg_to_icons"
               THEN [i \in 1..Len(ico_sizes) |-> <<"read", src>>]
               ELSE << <<"read", src>> >>
       IN  IF fs[src] = Absent
           THEN /\ Raise
                /\ UNCHANGED <<fs, log>>
           ELSE /\ fs' = [fs EXCEPT !["icon.ico"] =
                            IcoSave(images[1], ico_sizes, Tail(images))]
                /\ log' = log \o reads \o << <<"write", "icon.ico">> >>
                /\ Advance
    /\ UNCHANGED <<script, imports_ok, codec, fs_start, fs_prev, run, idx, img,
                   icon_data>>

\* img = Image.open(png_path) of create_icns_manually / create_icns_file: a
\* missing file raises FileNotFoundError, which nothing catches.
IcnsOpenSrc ==
    /\ Pc = "icns_open_src"
    /\ IF fs["icon.png"] = Absent
       THEN /\ Raise
            /\ UNCHANGED <<img, log>>
       ELSE /\ img' = PngDecode(fs["icon.png"])
            /\ log' = Append(log, <<"read", "icon.png">>)
            /\ Advance
    /\ UNCHANGED <<script, imports_ok, codec, fs, fs_start, fs_prev, run, idx,
                   icon_data>>

\* The PNG payload of the chunk of one registry size.
ChunkPayload(size) ==
    IF script = "convert_svg_to_icons"
    THEN Svg2Png(fs["icon.svg"], size, size)
    ELSE PngEncode(Resize(img, size, size))

\* One iteration of `for size, type_code in icon_types`: resize (or render),
\* PNG-encode, frame as a chunk, append to icon_data.
IcnsBuild ==
    /\ Pc = "icns_build"
    /\ LET size == icon_types[idx][1]
           type_code == icon_types[idx][2]
           last == idx = Len(icon_types)
       IN  /\ icon_data' =
                Append(IF idx = 1 THEN <<>> ELSE icon_data,
                       MakeChunk(type_code, ChunkPayload(size)))
           /\ log' = log
                   \o (IF script = "convert_svg_to_icons"
                       THEN << <<"read", "icon.svg">> >> ELSE <<>>)
           /\ idx' = IF last THEN 1 ELSE idx + 1
           /\ IF last THEN Advance ELSE UNCHANGED <<stage, exit_code>>
    /\ UNCHANGED <<script, imports_ok, codec, fs, fs_start, fs_prev, run, img>>

\* open(icns_path, 'wb'): the file is created, or truncated to nothing.
IcnsOpenOut ==
    /\ Pc = "icns_open_out"
    /\ fs' = [fs EXCEPT !["icon.icns"] = <<>>]
    /\ log' = Append(log, <<"write", "icon.icns">>)
    /\ Advance
    /\ UNCHANGED <<script, imports_ok, codec, fs_start, fs_prev, run, idx, img,
                   icon_data>>

\* f.write(b'icns')
IcnsWriteMagic ==
    /\ Pc = "icns_write_magic"
    /\ fs' = [fs EXCEPT !["icon.icns"] = @ \o IcnsMagic]
    /\ Advance
    /\ UNCHANGED <<script, imports_ok, codec, fs_start, fs_prev, run, idx, img,
                   icon_data, log>>

\* f.write(struct.pack('>I', total_size))
IcnsWriteTotal ==
    /\ Pc = "icns_write_total"
    /\ fs' = [fs EXCEPT !["icon.icns"] = @ \o PackBE32(IcnsTotalSize(icon_data))]
    /\ Advance
    /\ UNCHANGED <<script, imports_ok, codec, fs_start, fs_prev, run, idx, img,
                   icon_data, log>>

\* One iteration of `for chunk in icon_data: f.write(chunk)`; after the last
\* the with block closes the file and the encoder returns.
IcnsWriteChunk ==
    /\ Pc = "icns_write_chunks"
    /\ LET last == idx >= Len(icon_data)
       IN  /\ fs' = [fs EXCEPT !["icon.icns"] =
                        IF icon_data = <<>> THEN @ ELSE @ \o icon_data[idx]]
           /\ idx' = IF last THEN 1 ELSE idx + 1
           /\ IF last THEN Advance ELSE UNCHANGED <<stage, exit_code>>
    /\ UNCHANGED <<script, imports_ok, codec, fs_start, fs_prev, run, img,
                   icon_data, log>>

\* A write of the ICNS file fails (disk full, I/O error): the exception leaves
\* the with block, which closes the file, and nothing removes it.
IcnsWriteFails ==
    /\ Pc \in {"icns_write_magic", "icns_write_total", "icns_write_chunks"}
    /\ Raise
    /\ UNCHANGED <<script, imports_ok, codec, fs, fs_start, fs_prev, run, idx,
                   img, icon_data, log>>

\* Opening the source, resampling or PNG-encoding (rendering, for the vector
\* source) raises for the registry size at hand: the exception leaves the
\* encoder and main uncaught.
IcnsBuildFails ==
    /\ Pc \in {"icns_open_src", "icns_build"}
    /\ Raise
    /\ UNCHANGED <<script, imports_ok, codec, fs, fs_start, fs_prev, run, idx,
                   img, icon_data, log>>

\* The script is run again on the directory the finished run left.
Rerun ==
    /\ exit_code = 0
    /\ run < MaxRuns
    /\ run' = run + 1
    /\ fs_prev' = fs
    /\ fs_start' = fs
    /\ stage' = 1
    /\ idx' = 1
    /\ img' = NoImage
    /\ icon_data' = <<>>
    /\ log' = <<>>
    /\ exit_code' = -1
    /\ UNCHANGED <<script, imports_ok, codec, fs>>

Next ==
    \/ Import
    \/ CheckSvg
    \/ WritePng
    \/ CreateIco
    \/ IcnsOpenSrc
    \/ IcnsBuild
    \/ IcnsOpenOut
    \/ IcnsWriteMagic
    \/ IcnsWriteTotal
    \/ IcnsWriteChunk
    \/ IcnsWriteFails
    \/ IcnsBuildFails
    \/ Rerun

Spec == Init /\ [][Next]_vars

(***************************************************************************)
(* Readers used to state the properties.                                   *)
(***************************************************************************)
\* Whether the current run wrote / read file n.
Wrote(n) == \E i \in 1..Len(log) : log[i] = <<"write", n>>
WriteCount(n) == Cardinality({i \in 1..Len(log) : log[i] = <<"write", n>>})

\* The run returned normally from an ICNS encoder that wrote its file.
IcnsWritten == exit_code = 0 /\ Wrote("icon.icns")

\* The run returned normally from an ICO encoder.
IcoWritten == exit_code = 0 /\ Wrote("icon.ico")

RECURSIVE WalkChunks(_, _)
\* An ICNS reader: from 0-based offset off, the chunks met by stepping by each
\* chunk's declared length. A chunk whose declared length is below 8 or runs
\* past the end of the file ends the walk and is marked not ok.
WalkChunks(b, off) ==
    IF off + 8 > Len(b) THEN <<>>
    ELSE LET n == ReadBE32(b, off + 4)
             good == n >= 8 /\ off + n <= Len(b)
             c == [tag |-> Slice(b, off, 4), len |-> n, off |-> off, ok |-> good,
                   payload |-> IF good THEN Slice(b, off + 8, n - 8) ELSE <<>>]
         IN  IF good THEN <<c>> \o WalkChunks(b, off + n) ELSE <<c>>

\* A file that looks like an ICNS container and holds fewer bytes than its
\* header declares.
TruncatedIcns(b) ==
    /\ b # Absent
    /\ Len(b) >= 8
    /\ Slice(b, 0, 4) = IcnsMagic
    /\ ReadBE32(b, 4) > Len(b)

\* The source file the script reads was missing when the run started.
SourceMissing ==
    /\ script \in {"convert_svg_to_icons", "generate_icns"}
    /\ fs_start[SourceName(script)] = Absent

(***************************************************************************)
(* C1: in every ICNS file an encoder has written, the big-endian 32-bit    *)
(* total length at offset 4 equals 8 plus the sum of the declared lengths  *)
(* of the chunks, and equals the number of bytes of the file.              *)
(***************************************************************************)
RECURSIVE SumDeclared(_)
SumDeclared(chunks) ==
    IF chunks = <<>> THEN 0
    ELSE ReadBE32(Head(chunks), 4) + SumDeclared(Tail(chunks))

C1_HeaderTotalLength ==
    IcnsWritten =>
        LET f == fs["icon.icns"]
        IN  /\ Len(f) >= 8
            /\ Slice(f, 0, 4) = IcnsMagic
            /\ ReadBE32(f, 4) = 8 + SumDeclared(icon_data)
            /\ ReadBE32(f, 4) = Len(f)

\* An ICNS file of more than 255 bytes whose payloads differ in length.
C1_Witness ==
    /\ IcnsWritten
    /\ script = "generate_icns"
    /\ codec[512] # codec[16]
    /\ Len(fs["icon.icns"]) > 255

(***************************************************************************)
(* C2: every chunk is tag, big-endian length, payload, with the declared   *)
(* length exactly 8 plus the payload's length: walking the file from       *)
(* offset 8 by declared lengths meets each chunk's tag in turn, each       *)
(* payload is exactly one whole PNG, and the walk ends at end of file.     *)
(***************************************************************************)
C2_ChunkLayout ==
    IcnsWritten =>
        LET f == fs["icon.icns"]
            w == WalkChunks(f, 8)
        IN  /\ Len(w) = Len(icon_types)
            /\ \A i \in 1..Len(w) :
                /\ w[i].ok
                /\ w[i].tag = icon_types[i][2]
                /\ w[i].off = IF i = 1 THEN 8 ELSE w[i - 1].off + w[i - 1].len
                /\ IsPng(w[i].payload)
                /\ w[i].len = 8 + Len(PngEncode(PngDecode(w[i].payload)))
            /\ w[Len(w)].off + w[Len(w)].len = Len(f)

\* A written file in which the chunk of the largest size needs a two-byte length.
C2_Witness ==
    /\ IcnsWritten
    /\ script = "convert_svg_to_icons"
    /\ codec[512] = 1
    /\ codec[256] = 0
    /\ WalkChunks(fs["icon.icns"], 8)[1].len > 255

(***************************************************************************)
(* C3: whatever the size of the source image (smaller than 512 included),  *)
(* a produced ICNS file holds exactly 5 chunks, in the order ic09, ic08,   *)
(* ic07, ic11, ic04, each tag once, and the payload under each tag is an   *)
(* image of that tag's size (512, 256, 128, 32, 16).                       *)
(***************************************************************************)
C3_FiveChunksOfRegistrySize ==
    IcnsWritten =>
        LET w == WalkChunks(fs["icon.icns"], 8)
        IN  /\ Len(w) = 5
            /\ [i \in 1..Len(w) |-> w[i].tag]
                    = <<Tag_ic09, Tag_ic08, Tag_ic07, Tag_ic11, Tag_ic04>>
            /\ Cardinality({w[i].tag : i \in 1..Len(w)}) = 5
            /\ \A i \in 1..Len(w) :
                /\ w[i].ok
                /\ IsPng(w[i].payload)
                /\ PngDecode(w[i].payload).w = icon_types[i][1]
                /\ PngDecode(w[i].payload).h = icon_types[i][1]
            /\ [i \in 1..Len(w) |-> PngDecode(w[i].payload).w]
                    = <<512, 256, 128, 32, 16>>

\* An ICNS file built from a 1 x 1 source, every size upsampled.
C3_Witness ==
    /\ IcnsWritten
    /\ script = "generate_icns"
    /\ img = Image(1, 1, PxStale)

(***************************************************************************)
(* C4: decoding the .ico file written by create_ico_file or                *)
(* create_ico_from_svg yields 6 images whose (width, height) are 16, 32,   *)
(* 48, 64, 128 and 256, one directory entry per requested size, the 256    *)
(* entry stored as width byte 0 and height byte 0.                         *)
(***************************************************************************)
C4_IcoRoundTrip ==
    IcoWritten =>
        LET f == fs["icon.ico"]
        IN  /\ ReadLE16(f, 4) = 6
            /\ IcoDecodeSizes(f) = ico_sizes
            /\ \A i \in 1..Len(ico_sizes) :
                /\ IcoDecodeImages(f)[i].w = ico_sizes[i][1]
                /\ IcoDecodeImages(f)[i].h = ico_sizes[i][2]
            /\ f[6 + 16 * 5 + 1] = 0
            /\ f[6 + 16 * 5 + 2] = 0

(***************************************************************************)
(* C5: when the source file of convert_svg_to_icons.main (icon.svg) or of  *)
(* generate_icns.main (icon.png) is missing, no file of the directory is   *)
(* created or modified at any moment of the run, its end included.         *)
(***************************************************************************)
C5_MissingSourceWritesNothing == SourceMissing => fs = fs_start

\* A run that ended on the missing raster source, in a directory that held an
\* older icon.icns.
C5_Witness ==
    /\ SourceMissing
    /\ script = "generate_icns"
    /\ imports_ok
    /\ exit_code = 1
    /\ fs_start["icon.icns"] = StaleBytes

(***************************************************************************)
(* C6: a run of convert_svg_to_icons with icon.svg absent, or with a       *)
(* required import failing, ends with a non-zero exit status.              *)
(***************************************************************************)
C6_ConfigErrorExitsNonZero ==
    ( /\ script = "convert_svg_to_icons"
      /\ exit_code # -1
      /\ (~imports_ok \/ fs_start["icon.svg"] = Absent) )
        => exit_code > 0

(***************************************************************************)
(* C7: when a write fails part-way through an ICNS file, no final state    *)
(* leaves on disk a file that starts with 'icns' and a declared total      *)
(* length while holding fewer bytes than that length.                      *)
(***************************************************************************)
C7_NoTruncatedContainerLeft ==
    exit_code # -1 => ~TruncatedIcns(fs["icon.icns"])

(***************************************************************************)
(* C8: for every entry (filename, S) of the 14-entry size table (S from 30 *)
(* to 512) a pipeline run writes exactly one raster file under that name,  *)
(* and the image written is exactly S x S; create_modern_icon(S), drawn on *)
(* a 2S x 2S canvas, returns an S x S image.                               *)
(***************************************************************************)
\* The run went through the PNG loop of a pipeline main and returned.
PipelineDone ==
    /\ exit_code = 0
    /\ script # "generate_icns"
    /\ ~SourceMissing

C8_EveryTableEntryWrittenAtItsSize ==
    /\ Len(size_table) = 14
    /\ Cardinality(PngNames) = 14
    /\ \A i \in 1..Len(size_table) :
        LET filename == size_table[i][1]
            S == size_table[i][2]
        IN  /\ S >= 30 /\ S <= 512
            /\ create_modern_icon(S).w = S
            /\ create_modern_icon(S).h = S
            /\ WriteCount(filename) <= 1
            /\ PipelineDone => WriteCount(filename) = 1
            /\ Wrote(filename) =>
                /\ IsPng(fs[filename])
                /\ PngDecode(fs[filename]).w = S
                /\ PngDecode(fs[filename]).h = S

\* A finished run of the procedural pipeline over a directory of leftovers.
C8_Witness ==
    /\ PipelineDone
    /\ script = "generate_professional_icon"
    /\ run = 1
    /\ fs_start["StoreLogo.png"] # Absent
    /\ PngDecode(fs["StoreLogo.png"]).w = 50

(***************************************************************************)
(* C9: a second run of a script on the directory the first run left ends   *)
(* with every file byte-identical to what the first run left.              *)
(***************************************************************************)
C9_SecondRunChangesNothing ==
    (exit_code = 0 /\ run >= 2) => fs = fs_prev

\* A second full run of the procedural pipeline, whose encoders read the
\* icon.png the first run wrote.
C9_Witness ==
    /\ exit_code = 0
    /\ run = 2
    /\ script = "generate_professional_icon"
    /\ Wrote("icon.png")
    /\ Wrote("icon.ico")
    /\ Wrote("icon.icns")
    /\ fs_prev["icon.png"] = PngEncode(create_modern_icon(512))

(***************************************************************************)
(* C10: in the procedural pipelines the container encoders read icon.png   *)
(* only after the current run has written every PNG of the table, and      *)
(* create_ico_file runs before create_icns_file: both containers are built *)
(* from this run's icon.png.                                               *)
(***************************************************************************)
C10_ContainersReadThisRunsPng ==
    script \in {"generate_professional_icon", "generate_icon"} =>
        /\ \A j \in 1..Len(log) :
            log[j] = <<"read", "icon.png">> =>
                \A n \in PngNames : \E i \in 1..(j - 1) : log[i] = <<"write", n>>
        /\ \A j \in 1..Len(log) :
            log[j] = <<"write", "icon.icns">> =>
                \E r1, p, r2 \in 1..(j - 1) :
                    /\ r1 < p /\ p < r2
                    /\ log[r1] = <<"read", "icon.png">>
                    /\ log[p] = <<"write", "icon.ico">>
                    /\ log[r2] = <<"read", "icon.png">>
        /\ img # NoImage => img = create_modern_icon(512)
        /\ Wrote("icon.ico") =>
            IcoDecodeImages(fs["icon.ico"])[1].px =
                (IF script = "generate_icon" THEN PxLauncher ELSE PxModern)

\* Both containers written by a first run that found a stale icon.png.
C10_Witness ==
    /\ script = "generate_professional_icon"
    /\ run = 1
    /\ exit_code = 0
    /\ fs_start["icon.png"] = PngEncode(Image(1, 1, PxStale))
    /\ Wrote("icon.ico")
    /\ Wrote("icon.icns")

(***************************************************************************)
(* C11: each ICNS encoder opens its output only after all five chunks are  *)
(* built in memory: while the source is being opened and the chunks built, *)
(* and when any of these steps fails for any registry size, icon.icns is   *)
(* untouched (not created, not truncated, an existing file keeping its     *)
(* content).                                                               *)
(***************************************************************************)
\* The encoder is at, or ended in, the steps that precede its open for writing.
BuildingChunks == Program(script)[stage] \in {"icns_open_src", "icns_build"}

C11_OutputOpenedAfterChunksBuilt ==
    /\ BuildingChunks =>
        /\ ~Wrote("icon.icns")
        /\ fs["icon.icns"] = fs_start["icon.icns"]
    /\ Wrote("icon.icns") => Len(icon_data) = Len(icon_types)

\* The third registry size failed in a directory that held an older icon.icns.
C11_Witness ==
    /\ exit_code = 1
    /\ Program(script)[stage] = "icns_build"
    /\ script = "convert_svg_to_icons"
    /\ idx = 3
    /\ Len(icon_data) = 2
    /\ fs_start["icon.icns"] = StaleBytes
    /\ fs["icon.icns"] = StaleBytes

====
